---- MODULE Spec2Model ----
(***************************************************************************)
(* Model of the mosaico backend: the export handler `zip`                  *)
(* (server/download.js) and the upload parser `parseMultipart`             *)
(* (server/filemanager/index.js).                                          *)
(*                                                                         *)
(* Strings are sequences of atoms.  An atom stands for a run of characters *)
(* that no operation of the code splits: "http://a" is a scheme and host,  *)
(* "/" "?" "'" "(" ")" are themselves, "x" "y" are path segments.          *)
(***************************************************************************)
EXTENDS Integers, Sequences, FiniteSets, TLC

VARIABLES
  pc,            \* position of the zip handler
  req,           \* req.user / req.params of the export request
  body,          \* req.body.html as cheerio sees it: a sequence of elements
  html,          \* the local `html` string of zip (rewritten in place)
  allImages,     \* the export manifest
  archive,       \* the archiver instance
  imagesRequest, \* per manifest entry: its deferred and its request's events
  nextCalls,     \* errors handed to next()
  res,           \* the HTTP response
  upc,           \* position of parseMultipart
  options,       \* parseMultipart's options argument
  parts,         \* the file parts formidable has emitted, in order
  uploads,       \* parseMultipart's uploads array: state of each write promise
  failOrder,     \* indices of uploads in the order their writes failed
  deferred,      \* parseMultipart's deferred
  formatterCalls, \* number of times formatters[options.formatter] ran
  mpc,           \* position of the mailings handler that is running
  mreq,          \* the request it serves
  db,            \* the rows of the mailings table
  clock,         \* the time of the database
  outbox,        \* the mails handed to mail.send
  mres,          \* the response of the request
  mnext,         \* the status of the errors handed to next()
  dup,           \* duplicate's locals: the mailing found and its copy
  served         \* number of requests received

zipVars    == <<pc, req, body, html, allImages, archive, imagesRequest, nextCalls, res>>
uploadVars == <<upc, options, parts, uploads, failOrder, deferred, formatterCalls>>
mailVars   == <<mpc, mreq, db, clock, outbox, mres, mnext, dup, served>>
vars       == <<pc, req, body, html, allImages, archive, imagesRequest, nextCalls, res,
                upc, options, parts, uploads, failOrder, deferred, formatterCalls,
                mpc, mreq, db, clock, outbox, mres, mnext, dup, served>>

\* ---------------------------------------------------------------- bounds

\* elements with an asset reference in one submitted HTML document
MaxRefs == 2

\* file parts in one upload submission
MaxFiles == 3

\* ------------------------------------------------------- string helpers

\* Array.prototype.includes
Includes(s, x) == \E i \in 1..Len(s) : s[i] = x

\* does `pat` occur in `s` at index i
MatchAt(s, pat, i) ==
  /\ i + Len(pat) - 1 <= Len(s)
  /\ \A k \in 1..Len(pat) : s[i + k - 1] = pat[k]

\* String.prototype.replace(new RegExp(escapeRegExp(pat), 'g'), rep):
\* every leftmost, non-overlapping literal occurrence of pat becomes rep
RECURSIVE ReplaceFrom(_, _, _, _)
ReplaceFrom(s, pat, rep, i) ==
  IF i > Len(s) THEN <<>>
  ELSE IF MatchAt(s, pat, i)
       THEN rep \o ReplaceFrom(s, pat, rep, i + Len(pat))
       ELSE <<s[i]>> \o ReplaceFrom(s, pat, rep, i + 1)

ReplaceAll(s, pat, rep) == ReplaceFrom(s, pat, rep, 1)

\* lodash _.uniq: first occurrences, order kept
RECURSIVE uniq(_)
uniq(s) ==
  IF s = <<>> THEN <<>>
  ELSE LET front == uniq(SubSeq(s, 1, Len(s) - 1))
           last  == s[Len(s)]
       IN  IF Includes(front, last) THEN front ELSE Append(front, last)

\* ------------------------------------------------- the submitted HTML

\* scheme-and-host atoms: a reference starting with one is an absolute URL
HostAtoms == {"http://a"}

\* atoms whose first four characters are h, t, t, p
HttpAtoms == HostAtoms \cup {"httpdocs"}

\* references an element of the submitted document may carry
RefValues ==
  { <<"http://a", "/", "x">>,              \* http://a/x
    <<"http://a", "/", "x", "/", "y">>,    \* http://a/x/y
    <<"x", "/", "y">>,                     \* x/y        (relative)
    <<"httpdocs", "/", "x">>,              \* httpdocs/x (relative)
    <<"data:", "x">> }                     \* data URI

\* the attribute an element carries its reference in
Shapes == {"img", "background", "style"}

\* http://a/x?v: the path of http://a/x with a query string
QueryRef == <<"http://a", "/", "x", "?", "v">>

Elements == [shape : Shapes, value : RefValues] \cup {[shape |-> "img", value |-> QueryRef]}

Docs == UNION {[1..n -> Elements] : n \in 0..MaxRefs}

\* the text of an inline style declaring `ref` as its background
StyleAttr(ref) == <<"background:", "url(", "'">> \o ref \o <<"'", ")">>

\* the value of the attribute of `el` that carries its reference
AttrValue(el) == IF el.shape = "style" THEN StyleAttr(el.value) ELSE el.value

\* the source text of one element
ElementText(el) ==
  LET open == CASE el.shape = "img"        -> <<"<img src=">>
                [] el.shape = "background" -> <<"<td background=">>
                [] el.shape = "style"      -> <<"<td style=">>
  IN  open \o AttrValue(el) \o <<">">>

\* the source text of a document: body.html
RECURSIVE Render(_)
Render(doc) ==
  IF doc = <<>> THEN <<>> ELSE ElementText(Head(doc)) \o Render(Tail(doc))

\* ------------------------------------------------------------ download.js

isHttpUrl(uri) == uri # <<>> /\ uri[1] \in HttpAtoms

\* an absolute HTTP(S) URL, as opposed to whatever isHttpUrl accepts
IsAbsoluteUrl(uri) == uri # <<>> /\ uri[1] \in HostAtoms

\* he.encode(html.replace(/\t/g, ' '), {useNamedReferences, allowUnsafeSymbols})
secureHtml(s) ==
  [i \in 1..Len(s) |-> CASE s[i] = "\t"     -> " "
                         [] s[i] = "e-acute" -> "&eacute;"
                         [] OTHER            -> s[i]]

\* the longest prefix of s holding no atom of `stops`
RECURSIVE TakeUntil(_, _)
TakeUntil(s, stops) ==
  IF s = <<>> \/ Head(s) \in stops THEN <<>>
  ELSE <<Head(s)>> \o TakeUntil(Tail(s), stops)

\* String.prototype.trim
RECURSIVE trim(_)
trim(s) ==
  IF s = <<>> THEN s
  ELSE IF Head(s) = " " THEN trim(Tail(s))
  ELSE IF s[Len(s)] = " " THEN trim(SubSeq(s, 1, Len(s) - 1))
  ELSE s

\* url.parse(imageUrl).pathname
pathname(imageUrl) ==
  LET absolute == imageUrl[1] \in HostAtoms
      path     == TakeUntil(IF absolute THEN Tail(imageUrl) ELSE imageUrl, {"?", "#"})
  IN  IF absolute /\ path = <<>> THEN <<"/">> ELSE path

getImageName(imageUrl) ==
  LET spaced  == [i \in 1..Len(pathname(imageUrl)) |->
                    IF pathname(imageUrl)[i] = "/" THEN " " ELSE pathname(imageUrl)[i]]
      trimmed == trim(spaced)
  IN  [i \in 1..Len(trimmed) |-> IF trimmed[i] = " " THEN "-" ELSE trimmed[i]]

\* speakingurl on the atoms mailing names are made of
getSlug(s) == [i \in 1..Len(s) |-> IF s[i] = " " THEN "-" ELSE s[i]]

getName(name) ==
  LET n   == IF name = <<>> THEN <<"email">> ELSE name
      cut == IF Len(n) >= 2 /\ n[Len(n) - 1] = "." /\ n[Len(n)] \in {"html", "x", "y"}
             THEN SubSeq(n, 1, Len(n) - 2) ELSE n
  IN  getSlug(cut)

imagesFolder == <<"images">>

\* /url\('?([^)']*)/.exec(style)[1], <<>> when the regexp does not match
RECURSIVE urlReg(_)
urlReg(style) ==
  IF style = <<>> THEN <<>>
  ELSE IF Head(style) = "url("
       THEN LET rest == Tail(style)
            IN  TakeUntil(IF rest # <<>> /\ Head(rest) = "'" THEN Tail(rest) ELSE rest,
                          {")", "'"})
       ELSE urlReg(Tail(style))

\* $(selector).map(el => $(el).attr(attribute)).get()
AttrsOf(doc, shape) ==
  LET hits == SelectSeq(doc, LAMBDA el : el.shape = shape)
  IN  [i \in 1..Len(hits) |-> AttrValue(hits[i])]

imgUrls(doc) == uniq(SelectSeq(AttrsOf(doc, "img"), isHttpUrl))

bgUrls(doc) == uniq(SelectSeq(AttrsOf(doc, "background"), isHttpUrl))

\* the .each over $('[style]'): push result[1] unless styleUrls includes it
RECURSIVE styleUrlsOf(_)
styleUrlsOf(styles) ==
  IF styles = <<>> THEN <<>>
  ELSE LET front  == styleUrlsOf(SubSeq(styles, 1, Len(styles) - 1))
           result == urlReg(styles[Len(styles)])
       IN  IF result # <<>> /\ isHttpUrl(result) /\ ~Includes(front, result)
           THEN Append(front, result) ELSE front

styleUrls(doc) ==
  styleUrlsOf(SelectSeq(AttrsOf(doc, "style"), LAMBDA style : Includes(style, "url(")))

\* the manifest, with the last _.uniq left out
AllImagesNoUniq(doc) == imgUrls(doc) \o bgUrls(doc) \o styleUrls(doc)

AllImages(doc) == uniq(imgUrls(doc) \o bgUrls(doc) \o styleUrls(doc))

relativeUrl(imgUrl) == imagesFolder \o <<"/">> \o getImageName(imgUrl)

\* allImages.forEach(imgUrl => html = html.replace(search, relativeUrl))
RECURSIVE Rewrite(_, _)
Rewrite(h, images) ==
  IF images = <<>> THEN h
  ELSE Rewrite(ReplaceAll(h, Head(images), relativeUrl(Head(images))), Tail(images))

\* ------------------------------------------------------- the zip handler

\* the Mailing table
Mailings == { [id |-> 1, groupId |-> "g1", name |-> <<"my", " ", "mail", ".", "html">>] }

MailingIds == {1, 2}

\* req.user of the callers
Users == { [isAdmin |-> TRUE,  groupId |-> "g0"],
           [isAdmin |-> FALSE, groupId |-> "g1"],
           [isAdmin |-> FALSE, groupId |-> "g2"] }

\* response.statusCode of a fetch
StatusCodes == {200, 500}

\* the where clause with the groupId never added
WhereIdOnly(user, mailingId) == [id |-> mailingId]

\* reqParams.where of zip and send: the id, and for a non-admin the groupId
Where(user, mailingId) ==
  IF user.isAdmin THEN [id |-> mailingId]
  ELSE [id |-> mailingId, groupId |-> user.groupId]

\* Mailing.findOne(reqParams): the rows matching every column of where
findOne(where) ==
  {m \in Mailings : \A col \in DOMAIN where : m[col] = where[col]}

NoArchive ==
  [created |-> FALSE, piped |-> FALSE, entries |-> <<>>, finalized |-> FALSE,
   errored |-> FALSE, ended |-> FALSE]

\* ends counts the handler's calls of res.end()
NoResponse == [attachment |-> <<>>, ended |-> FALSE, ends |-> 0]

\* no request of the mailings handlers yet
NoRequest ==
  [handler |-> "none", user |-> [isAdmin |-> FALSE, groupId |-> "g0"], mailingId |-> 0,
   xhr |-> FALSE, query |-> [method |-> FALSE, limit |-> 0, page |-> 0],
   body |-> [name |-> <<>>, data |-> "", html |-> <<>>, rcpt |-> "",
             mailings |-> [isArray |-> FALSE, ids |-> <<>>]]]

\* a response nothing was written to
NoReply == [kind |-> "none"]

\* duplicate has found no mailing yet
NoDuplicate == [found |-> FALSE]

\* a deferred nobody has settled
NoDeferred == [state |-> "pending", value |-> [kind |-> "none"]]

InitZip ==
  /\ pc = "findOne"
  /\ req \in [user : Users, mailingId : MailingIds]
  /\ body = <<>>
  /\ html = <<>>
  /\ allImages = <<>>
  /\ archive = NoArchive
  /\ imagesRequest = <<>>
  /\ nextCalls = <<>>
  /\ res = NoResponse
  /\ upc = "idle"
  /\ options = [prefix |-> <<>>, formatter |-> "none"]
  /\ parts = <<>>
  /\ uploads = <<>>
  /\ failOrder = <<>>
  /\ deferred = NoDeferred
  /\ formatterCalls = 0
  /\ mpc = "idle"
  /\ mreq = NoRequest
  /\ db = <<>>
  /\ clock = 0
  /\ outbox = <<>>
  /\ mres = NoReply
  /\ mnext = <<>>
  /\ dup = NoDuplicate
  /\ served = 0

\* if (!mailing) return next( createError(404) )
ZipNotFound ==
  /\ pc = "findOne"
  /\ findOne(Where(req.user, req.mailingId)) = {}
  /\ nextCalls' = Append(nextCalls, 404)
  /\ pc' = "done"
  /\ UNCHANGED <<req, body, html, allImages, archive, imagesRequest, res>>
  /\ UNCHANGED uploadVars
  /\ UNCHANGED mailVars

\* the entry the response handler appends for manifest entry i; source is the
\* request piped into it, 0 for the html
ImageEntry(name, i) ==
  [name   |-> getImageName(allImages[i]),
   prefix |-> name \o <<"/">> \o imagesFolder \o <<"/">>,
   source |-> i,
   data   |-> <<"response of">> \o allImages[i]]

\* res.attachment(...) followed by a res.end() of the handler's own
AttachmentThenEnd(name) ==
  [res EXCEPT !.attachment = name \o <<".zip">>, !.ended = TRUE, !.ends = @ + 1]

\* res.attachment( `${name}.zip` )
Attachment(name) == [res EXCEPT !.attachment = name \o <<".zip">>]

\* from archiver('zip') to the return of allImages.map: one synchronous run
ZipStart ==
  /\ pc = "findOne"
  /\ \E mailing \in findOne(Where(req.user, req.mailingId)) : \E doc \in Docs :
       LET name   == getName(mailing.name)
           images == AllImages(doc)
           h      == Rewrite(Render(doc), images)
       IN  /\ body' = doc
           /\ allImages' = images
           /\ html' = h
           /\ res' = Attachment(name)
           /\ archive' = [created   |-> TRUE,
                          piped     |-> TRUE,
                          finalized |-> FALSE,
                          errored   |-> FALSE,
                          ended     |-> FALSE,
                          entries   |-> << [name   |-> name \o <<".html">>,
                                            prefix |-> name \o <<"/">>,
                                            source |-> 0,
                                            data   |-> secureHtml(h)] >>]
           /\ imagesRequest' = [i \in 1..Len(images) |->
                                  [dfd |-> "pending", statusCode |-> 0, errored |-> FALSE]]
  /\ pc' = "await"
  /\ UNCHANGED <<req, nextCalls>>
  /\ UNCHANGED uploadVars
  /\ UNCHANGED mailVars

\* the name zip computed from the mailing it found
ArchiveName == SubSeq(res.attachment, 1, Len(res.attachment) - 1)

\* the response handler appends whatever the status
OnResponseAnyStatus(i, statusCode) ==
  /\ archive' = [archive EXCEPT !.entries = Append(@, ImageEntry(ArchiveName, i))]
  /\ imagesRequest' = [imagesRequest EXCEPT ![i].statusCode = statusCode,
                                            ![i].dfd = "resolved"]

\* imgRequest.on('response', ...)
OnResponse(i, statusCode) ==
  IF statusCode # 200
  THEN /\ imagesRequest' = [imagesRequest EXCEPT ![i].statusCode = statusCode]
       /\ UNCHANGED archive
  ELSE /\ archive' = [archive EXCEPT !.entries = Append(@, ImageEntry(ArchiveName, i))]
       /\ imagesRequest' = [imagesRequest EXCEPT ![i].statusCode = statusCode,
                                                 ![i].dfd = "resolved"]

\* imgRequest.on('error', ...)
OnError(i) ==
  /\ imagesRequest' = [imagesRequest EXCEPT ![i].errored = TRUE, ![i].dfd = "resolved"]
  /\ UNCHANGED archive

\* a request answers: at most one response, and none after an error
Response ==
  /\ pc \in {"await", "finalized"}
  /\ \E i \in 1..Len(imagesRequest) : \E statusCode \in StatusCodes :
       /\ imagesRequest[i].statusCode = 0
       /\ ~imagesRequest[i].errored
       /\ OnResponse(i, statusCode)
  /\ UNCHANGED <<pc, req, body, html, allImages, nextCalls, res>>
  /\ UNCHANGED uploadVars
  /\ UNCHANGED mailVars

\* a request fails: before any response, or while its body streams
Error ==
  /\ pc \in {"await", "finalized"}
  /\ \E i \in 1..Len(imagesRequest) :
       /\ ~imagesRequest[i].errored
       /\ OnError(i)
  /\ UNCHANGED <<pc, req, body, html, allImages, nextCalls, res>>
  /\ UNCHANGED uploadVars
  /\ UNCHANGED mailVars

\* Promise.all settles as soon as one deferred is resolved
PromiseAny(requests) ==
  requests = <<>> \/ \E i \in 1..Len(requests) : requests[i].dfd = "resolved"

\* Promise.all( imagesRequest ) is fulfilled
PromiseAll(requests) == \A i \in 1..Len(requests) : requests[i].dfd = "resolved"

\* the continuation of the await: archive.finalize()
Finalize ==
  /\ pc = "await"
  /\ PromiseAll(imagesRequest)
  /\ archive' = [archive EXCEPT !.finalized = TRUE]
  /\ pc' = "finalized"
  /\ UNCHANGED <<req, body, html, allImages, imagesRequest, nextCalls, res>>
  /\ UNCHANGED uploadVars
  /\ UNCHANGED mailVars

\* the archive emits 'error': archive.on( 'error', next )
ArchiveError ==
  /\ pc \in {"await", "finalized"}
  /\ ~archive.errored
  /\ ~archive.ended
  /\ archive' = [archive EXCEPT !.errored = TRUE]
  /\ nextCalls' = Append(nextCalls, "archive error")
  /\ UNCHANGED <<pc, req, body, html, allImages, imagesRequest, res>>
  /\ UNCHANGED uploadVars
  /\ UNCHANGED mailVars

\* archive.on( 'end', () => { ...; res.end() } )
OnArchiveEnd == [res EXCEPT !.ended = TRUE, !.ends = @ + 1]

\* the archive stream emits 'end': once, and only when it has been finalized
ArchiveEnd ==
  /\ archive.finalized
  /\ ~archive.ended
  /\ archive' = [archive EXCEPT !.ended = TRUE]
  /\ res' = OnArchiveEnd
  /\ UNCHANGED <<pc, req, body, html, allImages, imagesRequest, nextCalls>>
  /\ UNCHANGED uploadVars
  /\ UNCHANGED mailVars

\* ---------------------------------------------------------- parseMultipart

\* the file parts a submission may hold
UploadFiles ==
  { [field |-> "images",  size |-> 3, name |-> <<"Logo", ".", "png">>,
     type |-> "image/png",  hash |-> "h1"],
    [field |-> "images",  size |-> 5, name |-> <<"photo", ".", "jpg">>,
     type |-> "image/jpeg", hash |-> "h2"],
    [field |-> "images",  size |-> 0, name |-> <<"photo", ".", "jpg">>,
     type |-> "image/jpeg", hash |-> "h0"],
    [field |-> "markup",  size |-> 7, name |-> <<"tpl", ".", "html">>,
     type |-> "text/html",  hash |-> "h3"],
    \* the bytes of Logo.png under another name, sent by the editor's widget
    [field |-> "files[]", size |-> 3, name |-> <<"pic", ".", "png">>,
     type |-> "image/png",  hash |-> "h1"],
    \* a part without a file name
    [field |-> "images",  size |-> 4, name |-> <<>>,
     type |-> "image/png",  hash |-> "h4"],
    \* a name made of punctuation only
    [field |-> "images",  size |-> 4, name |-> <<"!!">>,
     type |-> "image/png",  hash |-> "h5"],
    \* a type the MIME table does not know
    [field |-> "images",  size |-> 6, name |-> <<"doc", ".", "bin">>,
     type |-> "application/x-unknown", hash |-> "h6"],
    \* the bytes of photo.jpg under another name, declared as a PNG
    [field |-> "images",  size |-> 5, name |-> <<"shot", ".", "jpg">>,
     type |-> "image/png",  hash |-> "h2"] }

\* the options parseMultipart is called with
UploadOptions == [prefix : {<<"p1">>}, formatter : {"editor", "groups"}]

\* shared/slug-filename.js on the atoms file names are made of
slugFilename(name) ==
  LET kept == SelectSeq(name, LAMBDA a : a # "!!")
  IN  [i \in 1..Len(kept) |-> CASE kept[i] = "Logo" -> "logo"
                              [] kept[i] = " "    -> "-"
                              [] OTHER            -> kept[i]]

\* path.extname: from the last "." on, unless that "." opens the name
extname(fileName) ==
  LET dots == {i \in 2..Len(fileName) : fileName[i] = "."}
  IN  IF dots = {} THEN <<>>
      ELSE SubSeq(fileName, CHOOSE i \in dots : \A j \in dots : j <= i, Len(fileName))

\* String.prototype.replace(pat, rep) with a string pattern: the first occurrence
RECURSIVE ReplaceFirstFrom(_, _, _, _)
ReplaceFirstFrom(s, pat, rep, i) ==
  IF i > Len(s) THEN <<>>
  ELSE IF MatchAt(s, pat, i)
       THEN rep \o SubSeq(s, i + Len(pat), Len(s))
       ELSE <<s[i]>> \o ReplaceFirstFrom(s, pat, rep, i + 1)

ReplaceFirst(s, pat, rep) == IF pat = <<>> THEN rep \o s ELSE ReplaceFirstFrom(s, pat, rep, 1)

\* mime.extension(type), "false" being what the template string makes of false
mimeExtension(type) ==
  CASE type = "image/png"  -> "png"
    [] type = "image/jpeg" -> "jpeg"
    [] type = "text/html"  -> "html"
    [] OTHER               -> "false"

\* the name onFile slugs and strips of its extension
StrippedName(file) ==
  ReplaceFirst(slugFilename(file.name), extname(slugFilename(file.name)), <<>>)

\* does onFile hand the file to writeStreamFromPath
Stored(file) ==
  /\ file.size # 0
  /\ file.field # "markup"
  /\ StrippedName(file) # <<>>

\* a stored name that also carries the slugged original name
StoredNameWithOriginal(file, prefix) ==
  prefix \o <<"-", file.hash, "-">> \o StrippedName(file)
         \o <<".", mimeExtension(file.type)>>

\* `${ options.prefix }-${ file.hash }.${ ext }`
StoredName(file, prefix) == prefix \o <<"-", file.hash, ".", mimeExtension(file.type)>>

\* the original name without any extension
OriginalNameStripped(file) == StrippedName(file)

\* `${ fileName }.${ ext }`
OriginalName(file) == StrippedName(file) \o <<".", mimeExtension(file.type)>>

\* the file object as onFile leaves it; upload is its index in uploads, 0 if none
AfterOnFile(file, prefix, index) ==
  IF Stored(file)
  THEN [field |-> file.field, size |-> file.size, type |-> file.type, hash |-> file.hash,
        name         |-> StoredName(file, prefix),
        originalName |-> OriginalName(file),
        upload       |-> index]
  ELSE [field |-> file.field, size |-> file.size, type |-> file.type, hash |-> file.hash,
        name         |-> file.name,
        originalName |-> <<"undefined">>,
        upload       |-> 0]

InitUpload ==
  /\ upc = "parsing"
  /\ options \in UploadOptions
  /\ parts = <<>>
  /\ uploads = <<>>
  /\ failOrder = <<>>
  /\ deferred = NoDeferred
  /\ formatterCalls = 0
  /\ pc = "idle"
  /\ req = [user |-> [isAdmin |-> FALSE, groupId |-> "g0"], mailingId |-> 0]
  /\ body = <<>>
  /\ html = <<>>
  /\ allImages = <<>>
  /\ archive = NoArchive
  /\ imagesRequest = <<>>
  /\ nextCalls = <<>>
  /\ res = NoResponse
  /\ mpc = "idle"
  /\ mreq = NoRequest
  /\ db = <<>>
  /\ clock = 0
  /\ outbox = <<>>
  /\ mres = NoReply
  /\ mnext = <<>>
  /\ dup = NoDuplicate
  /\ served = 0

\* form.on('file', onFile)
OnFile ==
  /\ upc = "parsing"
  /\ Len(parts) < MaxFiles
  /\ \E file \in UploadFiles :
       /\ parts' = Append(parts, AfterOnFile(file, options.prefix, Len(uploads) + 1))
       /\ uploads' = IF Stored(file) THEN Append(uploads, "pending") ELSE uploads
  /\ UNCHANGED <<upc, options, failOrder, deferred, formatterCalls>>
  /\ UNCHANGED zipVars
  /\ UNCHANGED mailVars

\* files[field] of formidable, multiples on: the files sent under that field
FilesOf(field) == SelectSeq(parts, LAMBDA f : f.field = field)

\* the assets map if imageToFields kept every file of files.images
AssetsUnfiltered ==
  LET kept == FilesOf("images")
      keys == {kept[i].originalName : i \in 1..Len(kept)}
  IN  [k \in keys |->
         kept[CHOOSE i \in 1..Len(kept) :
                /\ kept[i].originalName = k
                /\ \A j \in 1..Len(kept) : kept[j].originalName = k => j <= i].name]

\* imageToFields over files.images: the assets map, later files overwriting
Assets ==
  LET kept == SelectSeq(FilesOf("images"), LAMBDA f : f.size # 0 /\ f.name # <<>>)
      keys == {kept[i].originalName : i \in 1..Len(kept)}
  IN  [k \in keys |->
         kept[CHOOSE i \in 1..Len(kept) :
                /\ kept[i].originalName = k
                /\ \A j \in 1..Len(kept) : kept[j].originalName = k => j <= i].name]

\* handleTemplatesUploads reads files.markup when it is one file with a name
ReadsMarkup == Len(FilesOf("markup")) = 1 /\ FilesOf("markup")[1].name # <<>>

\* what handleTemplatesUploads resolves with
Fields(markup) == [kind |-> "fields", assets |-> Assets, markup |-> markup]

\* Promise.all( uploads ) is fulfilled as soon as one write is
AnyFulfilled(ups) == ups = <<>> \/ \E i \in 1..Len(ups) : ups[i] = "fulfilled"

\* Promise.all( uploads ) is fulfilled
AllFulfilled(ups) == \A i \in 1..Len(ups) : ups[i] = "fulfilled"

\* Promise.all( uploads ) never rejects
NeverRejected(ups) == FALSE

\* Promise.all( uploads ) is rejected
AnyRejected(ups) == \E i \in 1..Len(ups) : ups[i] = "rejected"

\* formatters[ options.formatter ](fields, files, deferred.resolve), and the
\* catch that follows it
Format ==
  /\ formatterCalls' = formatterCalls + 1
  /\ IF options.formatter = "groups"
     THEN IF ReadsMarkup
          THEN upc' = "readFile" /\ UNCHANGED deferred
          ELSE /\ upc' = "done"
               /\ deferred' = [state |-> "resolved", value |-> Fields(<<>>)]
     ELSE /\ upc' = "done"
          /\ IF Len(FilesOf("files[]")) = 1
             THEN deferred' = [state |-> "resolved",
                               value |-> [kind  |-> "files",
                                          files |-> <<FilesOf("files[]")[1].name>>]]
             ELSE deferred' = [state |-> "rejected", value |-> [kind |-> "TypeError"]]

\* what the chain on Promise.all( uploads ) does once `ups` is the state of
\* the writes; `first` is the write whose rejection Promise.all saw first
Join(ups, first) ==
  IF AnyRejected(ups)
  THEN /\ deferred' = [state |-> "rejected", value |-> [kind |-> "write", index |-> first]]
       /\ upc' = "done"
       /\ UNCHANGED formatterCalls
  ELSE IF AllFulfilled(ups)
  THEN Format
  ELSE /\ upc' = "joining"
       /\ UNCHANGED <<deferred, formatterCalls>>

\* onEnd(err, ...) with an error of the form parser
OnEndError ==
  /\ upc = "parsing"
  /\ deferred' = [state |-> "rejected", value |-> [kind |-> "parse"]]
  /\ upc' = "done"
  /\ UNCHANGED <<options, parts, uploads, failOrder, formatterCalls>>
  /\ UNCHANGED zipVars
  /\ UNCHANGED mailVars

\* onEnd(null, fields, files): of the writes that have already failed,
\* Promise.all reports the one at the lowest index
OnEnd ==
  /\ upc = "parsing"
  /\ Join(uploads,
          IF AnyRejected(uploads)
          THEN CHOOSE i \in 1..Len(uploads) :
                 /\ uploads[i] = "rejected"
                 /\ \A j \in 1..Len(uploads) : uploads[j] = "rejected" => i <= j
          ELSE 0)
  /\ UNCHANGED <<options, parts, uploads, failOrder>>
  /\ UNCHANGED zipVars
  /\ UNCHANGED mailVars

\* a writeStreamFromPath promise is fulfilled
WriteDone ==
  /\ upc # "idle"
  /\ \E i \in 1..Len(uploads) :
       /\ uploads[i] = "pending"
       /\ uploads' = [uploads EXCEPT ![i] = "fulfilled"]
       /\ IF upc = "joining" THEN Join(uploads', i)
          ELSE UNCHANGED <<upc, deferred, formatterCalls>>
  /\ UNCHANGED <<options, parts, failOrder>>
  /\ UNCHANGED zipVars
  /\ UNCHANGED mailVars

\* a writeStreamFromPath promise is rejected
WriteFail ==
  /\ upc # "idle"
  /\ \E i \in 1..Len(uploads) :
       /\ uploads[i] = "pending"
       /\ uploads' = [uploads EXCEPT ![i] = "rejected"]
       /\ failOrder' = Append(failOrder, i)
       /\ IF upc = "joining" THEN Join(uploads', i)
          ELSE UNCHANGED <<upc, deferred, formatterCalls>>
  /\ UNCHANGED <<options, parts>>
  /\ UNCHANGED zipVars
  /\ UNCHANGED mailVars

\* readFile(files.markup.path) is fulfilled: fields.markup = text; resolve( fields )
ReadFileDone ==
  /\ upc = "readFile"
  /\ deferred' = [state |-> "resolved",
                  value |-> Fields(<<"text", FilesOf("markup")[1].hash>>)]
  /\ upc' = "done"
  /\ UNCHANGED <<options, parts, uploads, failOrder, formatterCalls>>
  /\ UNCHANGED zipVars
  /\ UNCHANGED mailVars

\* readFile(files.markup.path) is rejected: nothing handles it
ReadFileFail ==
  /\ upc = "readFile"
  /\ upc' = "done"
  /\ UNCHANGED <<options, parts, uploads, failOrder, deferred, formatterCalls>>
  /\ UNCHANGED zipVars
  /\ UNCHANGED mailVars

\* ------------------------------------------- mailings: send, update, duplicate

\* requests one session is followed for
MaxRequests == 2

\* const perpage = 25
perpage == 25

\* the group column of a mailing that belongs to no group
NoGroup == "null"

\* the mailings table when the session starts
InitialMailings ==
  << [id |-> 1, groupId |-> "g1",    name |-> <<"first">>,  data |-> "d0", updatedAt |-> 1],
     [id |-> 2, groupId |-> "g1",    name |-> <<"second">>, data |-> "d0", updatedAt |-> 2],
     [id |-> 3, groupId |-> NoGroup, name |-> <<"third">>,  data |-> "d0", updatedAt |-> 3] >>

\* req.body of the requests
\* req.body.mailings when the body has no such list
NoList == [isArray |-> FALSE, ids |-> <<>>]

SendBodies ==
  {[name |-> <<>>, data |-> "", html |-> <<"\t", "e-acute">>, rcpt |-> "rcpt",
    mailings |-> NoList]}

UpdateBodies ==
  { [name |-> <<>>,                data |-> "",   html |-> <<>>, rcpt |-> "",
     mailings |-> NoList],
    [name |-> <<" ", "renamed">>,  data |-> "d1", html |-> <<>>, rcpt |-> "",
     mailings |-> NoList] }

NoBody == [name |-> <<>>, data |-> "", html |-> <<>>, rcpt |-> "", mailings |-> NoList]

\* req.body of bulkRemove: no list, an empty list, lists of ids
BulkBodies ==
  { [NoBody EXCEPT !.mailings = list] :
      list \in { NoList,
                 [isArray |-> TRUE, ids |-> <<>>],
                 [isArray |-> TRUE, ids |-> <<1>>],
                 [isArray |-> TRUE, ids |-> <<1, 3>>] } }

\* req.query without any key; a limit or a page of 0 is an absent key
NoQuery == [method |-> FALSE, limit |-> 0, page |-> 0]

\* req.query of bulkRemove: nothing, or _method and page
Queries == { NoQuery, [method |-> TRUE, limit |-> 0, page |-> 2] }

\* req.query of userList: limit and page, each absent or at least 1
ListQueries == [method : {FALSE}, limit : {0, 1, 2}, page : {0, 1, 2, 3}]

\* an id no mailing has
AbsentId == 0

\* the requests a session is made of; the link to duplicate is followed by the
\* browser, send and update are called by scripts or not
Requests(ids) ==
  [handler : {"send"}, user : Users, mailingId : ids, xhr : BOOLEAN, query : {NoQuery},
   body : SendBodies]
    \cup
  [handler : {"update"}, user : Users, mailingId : ids, xhr : BOOLEAN, query : {NoQuery},
   body : UpdateBodies]
    \cup
  [handler : {"duplicate"}, user : Users, mailingId : ids, xhr : {FALSE}, query : {NoQuery},
   body : {NoBody}]
    \cup
  [handler : {"bulkRemove"}, user : Users, mailingId : {AbsentId}, xhr : {FALSE},
   query : Queries, body : BulkBodies]
    \cup
  [handler : {"userList"}, user : Users, mailingId : {AbsentId}, xhr : {FALSE},
   query : ListQueries, body : {NoBody}]

\* Mailing.findOne over the rows, the groupId column of where ignored
findOneByIdOnly(rows, where) == SelectSeq(rows, LAMBDA m : m.id = where.id)

\* Mailing.findOne( { where } ) over the rows of the table
findOneIn(rows, where) ==
  SelectSeq(rows, LAMBDA m : \A col \in DOMAIN where : m[col] = where[col])

\* the index of the row with that id
RowOf(id) == CHOOSE i \in 1..Len(db) : db[i].id = id

\* config.emailOptions.testSubjectPrefix
testSubjectPrefix == <<"[test] ">>

\* res.__('home.saved.noname')
noname == <<"untitled">>

\* helpers: normalizeString
normalizeString(str) == trim(str)

\* models: addGroupFilter, the filter of the mailings a user owns
addGroupFilter(user, filter) ==
  [id |-> filter.id, groupId |-> IF user.isAdmin THEN NoGroup ELSE user.groupId]

\* models: mailing.duplicate( user ), a new mailing not saved yet
mailingDuplicate(mailing, user, id) ==
  [id |-> id, groupId |-> mailing.groupId, name |-> mailing.name \o <<" copy">>,
   data |-> mailing.data, updatedAt |-> 0]

InitMailings ==
  /\ mpc = "idle"
  /\ mreq = NoRequest
  /\ db = InitialMailings
  /\ clock = 4
  /\ outbox = <<>>
  /\ mres = NoReply
  /\ mnext = <<>>
  /\ dup = NoDuplicate
  /\ served = 0
  /\ pc = "idle"
  /\ req = [user |-> [isAdmin |-> FALSE, groupId |-> "g0"], mailingId |-> 0]
  /\ body = <<>>
  /\ html = <<>>
  /\ allImages = <<>>
  /\ archive = NoArchive
  /\ imagesRequest = <<>>
  /\ nextCalls = <<>>
  /\ res = NoResponse
  /\ upc = "idle"
  /\ options = [prefix |-> <<>>, formatter |-> "none"]
  /\ parts = <<>>
  /\ uploads = <<>>
  /\ failOrder = <<>>
  /\ deferred = NoDeferred
  /\ formatterCalls = 0

\* the router hands a request to its handler, once the one before is answered
Receive ==
  /\ mpc \in {"idle", "done"}
  /\ served < MaxRequests
  /\ mreq' \in Requests({db[i].id : i \in 1..Len(db)} \cup {AbsentId})
  /\ mpc' = "handler"
  /\ served' = served + 1
  /\ mres' = NoReply
  /\ mnext' = <<>>
  /\ dup' = NoDuplicate
  /\ UNCHANGED <<db, clock, outbox>>
  /\ UNCHANGED zipVars
  /\ UNCHANGED uploadVars

\* if (!req.xhr) return next( createError(501) ), of send and of update
NotImplemented ==
  /\ mpc = "handler"
  /\ mreq.handler \in {"send", "update"}
  /\ ~mreq.xhr
  /\ mnext' = Append(mnext, 501)
  /\ mpc' = "done"
  /\ UNCHANGED <<mreq, db, clock, outbox, mres, dup, served>>
  /\ UNCHANGED zipVars
  /\ UNCHANGED uploadVars

\* send: if (!mailing) return next( createError(404) )
SendNotFound ==
  /\ mpc = "handler"
  /\ mreq.handler = "send"
  /\ mreq.xhr
  /\ findOneIn(db, Where(mreq.user, mreq.mailingId)) = <<>>
  /\ mnext' = Append(mnext, 404)
  /\ mpc' = "done"
  /\ UNCHANGED <<mreq, db, clock, outbox, mres, dup, served>>
  /\ UNCHANGED zipVars
  /\ UNCHANGED uploadVars

\* send: mail.send({ to, replyTo, subject, html })
SendMail ==
  /\ mpc = "handler"
  /\ mreq.handler = "send"
  /\ mreq.xhr
  /\ findOneIn(db, Where(mreq.user, mreq.mailingId)) # <<>>
  /\ LET mailing == findOneIn(db, Where(mreq.user, mreq.mailingId))[1]
     IN  outbox' = Append(outbox, [to      |-> mreq.body.rcpt,
                                   subject |-> testSubjectPrefix \o mailing.name,
                                   html    |-> secureHtml(mreq.body.html)])
  /\ mpc' = "mail"
  /\ UNCHANGED <<mreq, db, clock, mres, mnext, dup, served>>
  /\ UNCHANGED zipVars
  /\ UNCHANGED uploadVars

\* send: res.send( `OK: ${mailStatus.response}` )
MailDone ==
  /\ mpc = "mail"
  /\ mres' = [kind |-> "send"]
  /\ mpc' = "done"
  /\ UNCHANGED <<mreq, db, clock, outbox, mnext, dup, served>>
  /\ UNCHANGED zipVars
  /\ UNCHANGED uploadVars

\* send: mail.send rejects, asyncMiddleware hands the error to next
MailFail ==
  /\ mpc = "mail"
  /\ mnext' = Append(mnext, 500)
  /\ mpc' = "done"
  /\ UNCHANGED <<mreq, db, clock, outbox, mres, dup, served>>
  /\ UNCHANGED zipVars
  /\ UNCHANGED uploadVars

\* update: if (!mailing) return next( createError(404) )
UpdateNotFound ==
  /\ mpc = "handler"
  /\ mreq.handler = "update"
  /\ mreq.xhr
  /\ findOneIn(db, Where(mreq.user, mreq.mailingId)) = <<>>
  /\ mnext' = Append(mnext, 404)
  /\ mpc' = "done"
  /\ UNCHANGED <<mreq, db, clock, outbox, mres, dup, served>>
  /\ UNCHANGED zipVars
  /\ UNCHANGED uploadVars

\* update: the mailing with the data and the name of the body
Updated(mailing, reqBody) ==
  [mailing EXCEPT
     !.data = IF reqBody.data # "" THEN reqBody.data ELSE @,
     !.name = IF normalizeString(reqBody.name) # <<>>
              THEN normalizeString(reqBody.name) ELSE noname]

\* update: mailing.data = ...; mailing.name = ...; await mailing.save();
\* res.json(...).  save sets updatedAt when a column has changed
UpdateSave ==
  /\ mpc = "handler"
  /\ mreq.handler = "update"
  /\ mreq.xhr
  /\ findOneIn(db, Where(mreq.user, mreq.mailingId)) # <<>>
  /\ LET mailing == findOneIn(db, Where(mreq.user, mreq.mailingId))[1]
         changed == Updated(mailing, mreq.body)
     IN  db' = [db EXCEPT ![RowOf(mailing.id)] =
                  IF changed = mailing THEN mailing
                  ELSE [changed EXCEPT !.updatedAt = clock]]
  /\ clock' = clock + 1
  /\ mres' = [kind |-> "json"]
  /\ mpc' = "done"
  /\ UNCHANGED <<mreq, outbox, mnext, dup, served>>
  /\ UNCHANGED zipVars
  /\ UNCHANGED uploadVars

\* update: mailing.save() rejects, asyncMiddleware hands the error to next
UpdateSaveFail ==
  /\ mpc = "handler"
  /\ mreq.handler = "update"
  /\ mreq.xhr
  /\ findOneIn(db, Where(mreq.user, mreq.mailingId)) # <<>>
  /\ mnext' = Append(mnext, 500)
  /\ mpc' = "done"
  /\ UNCHANGED <<mreq, db, clock, outbox, mres, dup, served>>
  /\ UNCHANGED zipVars
  /\ UNCHANGED uploadVars

\* duplicateImages: if (!mailing) { next( createError(404) ); return Promise.reject(...) }
DuplicateNotFound ==
  /\ mpc = "handler"
  /\ mreq.handler = "duplicate"
  /\ findOneIn(db, addGroupFilter(mreq.user, [id |-> mreq.mailingId])) = <<>>
  /\ mnext' = Append(mnext, 404)
  /\ mpc' = "done"
  /\ UNCHANGED <<mreq, db, clock, outbox, mres, dup, served>>
  /\ UNCHANGED zipVars
  /\ UNCHANGED uploadVars

\* one of the two findOne of duplicate rejects: .catch( err => next( err ) )
DuplicateFindFail ==
  /\ mpc = "handler"
  /\ mreq.handler = "duplicate"
  /\ mnext' = Append(mnext, 500)
  /\ mpc' = "done"
  /\ UNCHANGED <<mreq, db, clock, outbox, mres, dup, served>>
  /\ UNCHANGED zipVars
  /\ UNCHANGED uploadVars

\* duplicateImages going on to saveMailing without the copy of the images
DuplicateImagesNoWait ==
  /\ mpc = "handler"
  /\ mreq.handler = "duplicate"
  /\ findOneIn(db, addGroupFilter(mreq.user, [id |-> mreq.mailingId])) # <<>>
  /\ LET mailing == findOneIn(db, addGroupFilter(mreq.user, [id |-> mreq.mailingId]))[1]
     IN  \E gallery \in BOOLEAN :
           dup' = [found             |-> TRUE,
                   mailing           |-> mailing,
                   gallery           |-> gallery,
                   duplicatedMailing |-> mailingDuplicate(mailing, mreq.user, clock),
                   copied            |-> "pending",
                   gallerySaved      |-> "none"]
  /\ mpc' = "save"
  /\ UNCHANGED <<mreq, db, clock, outbox, mres, mnext, served>>
  /\ UNCHANGED zipVars
  /\ UNCHANGED uploadVars

\* duplicateImages: mailing.duplicate( req.user ) and filemanager.copyImages(...);
\* gallery is whether Galleries.findOne has found one
DuplicateImages ==
  /\ mpc = "handler"
  /\ mreq.handler = "duplicate"
  /\ findOneIn(db, addGroupFilter(mreq.user, [id |-> mreq.mailingId])) # <<>>
  /\ LET mailing == findOneIn(db, addGroupFilter(mreq.user, [id |-> mreq.mailingId]))[1]
     IN  \E gallery \in BOOLEAN :
           dup' = [found             |-> TRUE,
                   mailing           |-> mailing,
                   gallery           |-> gallery,
                   duplicatedMailing |-> mailingDuplicate(mailing, mreq.user, clock),
                   copied            |-> "pending",
                   gallerySaved      |-> "none"]
  /\ mpc' = "copyImages"
  /\ UNCHANGED <<mreq, db, clock, outbox, mres, mnext, served>>
  /\ UNCHANGED zipVars
  /\ UNCHANGED uploadVars

\* filemanager.copyImages is fulfilled: saveMailing calls duplicatedMailing.save()
CopyImagesDone ==
  /\ mpc = "copyImages"
  /\ dup' = [dup EXCEPT !.copied = "fulfilled"]
  /\ mpc' = "save"
  /\ UNCHANGED <<mreq, db, clock, outbox, mres, mnext, served>>
  /\ UNCHANGED zipVars
  /\ UNCHANGED uploadVars

\* filemanager.copyImages is rejected: .catch( err => next( err ) )
CopyImagesFail ==
  /\ mpc = "copyImages"
  /\ dup' = [dup EXCEPT !.copied = "rejected"]
  /\ mnext' = Append(mnext, 500)
  /\ mpc' = "done"
  /\ UNCHANGED <<mreq, db, clock, outbox, mres, served>>
  /\ UNCHANGED zipVars
  /\ UNCHANGED uploadVars

\* duplicatedMailing.save() is fulfilled: redirectToHome, res.redirect('/'),
\* and if ( gallery ) gallery.duplicate( duplicatedMailing._id ).save()
SaveDone ==
  /\ mpc = "save"
  /\ db' = Append(db, [dup.duplicatedMailing EXCEPT !.updatedAt = clock])
  /\ clock' = clock + 1
  /\ mres' = [kind |-> "redirect"]
  /\ mpc' = IF dup.gallery THEN "gallery" ELSE "done"
  /\ dup' = [dup EXCEPT !.gallerySaved = IF dup.gallery THEN "pending" ELSE "none"]
  /\ UNCHANGED <<mreq, outbox, mnext, served>>
  /\ UNCHANGED zipVars
  /\ UNCHANGED uploadVars

\* duplicatedMailing.save() is rejected: .catch( err => next( err ) )
SaveFail ==
  /\ mpc = "save"
  /\ mnext' = Append(mnext, 500)
  /\ mpc' = "done"
  /\ UNCHANGED <<mreq, db, clock, outbox, mres, dup, served>>
  /\ UNCHANGED zipVars
  /\ UNCHANGED uploadVars

\* the save of the duplicated gallery is fulfilled: nobody waits for it
GallerySaveDone ==
  /\ mpc = "gallery"
  /\ dup' = [dup EXCEPT !.gallerySaved = "fulfilled"]
  /\ mpc' = "done"
  /\ UNCHANGED <<mreq, db, clock, outbox, mres, mnext, served>>
  /\ UNCHANGED zipVars
  /\ UNCHANGED uploadVars

\* the rejection of the save of the duplicated gallery handed to next
GallerySaveFailToNext ==
  /\ mpc = "gallery"
  /\ dup' = [dup EXCEPT !.gallerySaved = "rejected"]
  /\ mnext' = Append(mnext, 500)
  /\ mpc' = "done"
  /\ UNCHANGED <<mreq, db, clock, outbox, mres, served>>
  /\ UNCHANGED zipVars
  /\ UNCHANGED uploadVars

\* the save of the duplicated gallery is rejected: the promise is not
\* returned to the chain, nothing handles the rejection
GallerySaveFail ==
  /\ mpc = "gallery"
  /\ dup' = [dup EXCEPT !.gallerySaved = "rejected"]
  /\ mpc' = "done"
  /\ UNCHANGED <<mreq, db, clock, outbox, mres, mnext, served>>
  /\ UNCHANGED zipVars
  /\ UNCHANGED uploadVars

\* getRedirectUrl: the query without _method, behind /? if anything is left
getRedirectUrl(request) ==
  LET query == (IF request.query.limit # 0 THEN <<"limit=", request.query.limit>> ELSE <<>>)
                 \o (IF request.query.page # 0 THEN <<"page=", request.query.page>> ELSE <<>>)
  IN  IF query # <<>> THEN <<"/?">> \o query ELSE <<"/">>

\* bulkRemove without a list to remove: res.redirect( redirectUrl ) reads the
\* const redirectUrl above its declaration, which throws a ReferenceError;
\* asyncMiddleware hands it to next
BulkRemoveNothing ==
  /\ mpc = "handler"
  /\ mreq.handler = "bulkRemove"
  /\ ~mreq.body.mailings.isArray \/ Len(mreq.body.mailings.ids) = 0
  /\ mnext' = Append(mnext, 500)
  /\ mpc' = "done"
  /\ UNCHANGED <<mreq, db, clock, outbox, mres, dup, served>>
  /\ UNCHANGED zipVars
  /\ UNCHANGED uploadVars

\* the rows Mailing.destroy( reqParams ) leaves: where id $in mailings, and
\* for a non-admin where groupId is the caller's
Destroyed(user, ids) ==
  SelectSeq(db, LAMBDA m : ~(Includes(ids, m.id) /\ (user.isAdmin \/ m.groupId = user.groupId)))

\* bulkRemove: await Mailing.destroy( reqParams ); res.redirect( redirectUrl )
BulkRemove ==
  /\ mpc = "handler"
  /\ mreq.handler = "bulkRemove"
  /\ mreq.body.mailings.isArray
  /\ Len(mreq.body.mailings.ids) # 0
  /\ db' = Destroyed(mreq.user, mreq.body.mailings.ids)
  /\ mres' = [kind |-> "redirect", url |-> getRedirectUrl(mreq)]
  /\ mpc' = "done"
  /\ UNCHANGED <<mreq, clock, outbox, mnext, dup, served>>
  /\ UNCHANGED zipVars
  /\ UNCHANGED uploadVars

\* bulkRemove: Mailing.destroy rejects, asyncMiddleware hands the error to next
BulkRemoveFail ==
  /\ mpc = "handler"
  /\ mreq.handler = "bulkRemove"
  /\ mreq.body.mailings.isArray
  /\ Len(mreq.body.mailings.ids) # 0
  /\ mnext' = Append(mnext, 500)
  /\ mpc' = "done"
  /\ UNCHANGED <<mreq, db, clock, outbox, mres, dup, served>>
  /\ UNCHANGED zipVars
  /\ UNCHANGED uploadVars

\* ORDER BY updatedAt ASC
OrderAsc(a, b) == a.updatedAt < b.updatedAt

\* order.push( ['updatedAt', 'DESC'] ): does row a come before row b
Order(a, b) == a.updatedAt > b.updatedAt

\* the rows in the order of `Order`
RECURSIVE Sorted(_)
Sorted(rows) ==
  IF rows = <<>> THEN <<>>
  ELSE LET i == CHOOSE i \in 1..Len(rows) :
                  \A j \in 1..Len(rows) : j = i \/ ~Order(rows[j], rows[i])
       IN  <<rows[i]>> \o Sorted(SubSeq(rows, 1, i - 1) \o SubSeq(rows, i + 1, Len(rows)))

\* userList without a query: the first page of the mailings of the user's
\* group, the last updated first
userList(user) ==
  LET groupId == IF user.isAdmin THEN NoGroup ELSE user.groupId
      rows    == Sorted(SelectSeq(db, LAMBDA m : m.groupId = groupId))
  IN  SubSeq(rows, 1, IF Len(rows) < perpage THEN Len(rows) ELSE perpage)

\* const limit = query.limit ? ~~query.limit : perpage
limitOf(query) == IF query.limit # 0 THEN query.limit ELSE perpage

\* const page = query.page ? ~~query.page - 1 : 0
pageOf(query) == IF query.page # 0 THEN query.page - 1 ELSE 0

\* const isLast = page >= Math.trunc(total / limit)
isLast(total, limit, page) == page >= total \div limit

\* the pagination status of userList; 0 stands for false
Pagination(total, limit, page) ==
  [total |-> total,
   prev  |-> IF page = 0 THEN 0 ELSE page,
   next  |-> IF isLast(total, limit, page) THEN 0 ELSE page + 2]

\* Mailing.findAndCount( { where, order, limit, offset } )
findAndCount(user, limit, offset) ==
  LET groupId == IF user.isAdmin THEN NoGroup ELSE user.groupId
      all     == Sorted(SelectSeq(db, LAMBDA m : m.groupId = groupId))
      last    == IF offset + limit < Len(all) THEN offset + limit ELSE Len(all)
  IN  [count |-> Len(all), rows |-> SubSeq(all, offset + 1, last)]

\* userList with a query: the page of the list and its pagination status
UserList ==
  /\ mpc = "handler"
  /\ mreq.handler = "userList"
  /\ LET limit    == limitOf(mreq.query)
         page     == pageOf(mreq.query)
         mailings == findAndCount(mreq.user, limit, page * limit)
     IN  mres' = [kind       |-> "list",
                  rows       |-> mailings.rows,
                  pagination |-> Pagination(mailings.count, limit, page)]
  /\ mpc' = "done"
  /\ UNCHANGED <<mreq, db, clock, outbox, mnext, dup, served>>
  /\ UNCHANGED zipVars
  /\ UNCHANGED uploadVars

\* ------------------------------------------------------- specifications

NextUpload ==
  OnFile \/ OnEndError \/ OnEnd \/ WriteDone \/ WriteFail \/ ReadFileDone \/ ReadFileFail

\* one call of parseMultipart
SpecUpload == InitUpload /\ [][NextUpload]_vars

NextZip ==
  ZipNotFound \/ ZipStart \/ Response \/ Error \/ Finalize \/ ArchiveError \/ ArchiveEnd

\* one export request
SpecZip == InitZip /\ [][NextZip]_vars

NextMailings ==
  \/ Receive
  \/ NotImplemented
  \/ SendNotFound
  \/ SendMail
  \/ MailDone
  \/ MailFail
  \/ UpdateNotFound
  \/ UpdateSave
  \/ UpdateSaveFail
  \/ DuplicateFindFail
  \/ DuplicateNotFound
  \/ DuplicateImages
  \/ CopyImagesDone
  \/ CopyImagesFail
  \/ SaveDone
  \/ SaveFail
  \/ GallerySaveDone
  \/ GallerySaveFail
  \/ BulkRemoveNothing
  \/ BulkRemove
  \/ BulkRemoveFail
  \/ UserList

\* one session of requests to send, update, duplicate, bulkRemove and userList
SpecMailings == InitMailings /\ [][NextMailings]_vars

\* ------------------------------------------- properties of the zip handler

\* the zip handler has run past the lookup and found the mailing
Exporting == pc \in {"await", "finalized"}

\* manifest entry i has an image entry in the archive
Appended(i) == \E k \in 1..Len(archive.entries) : archive.entries[k].source = i

\* C1: the archive is finalized only when every manifest entry's fetch has
\* settled: its image was appended on a 200, or the entry was skipped on an error
C1_FinalizeAfterAllSettled ==
  archive.finalized =>
    /\ Len(imagesRequest) = Len(allImages)
    /\ \A i \in 1..Len(allImages) :
         \/ imagesRequest[i].statusCode = 200 /\ Appended(i)
         \/ imagesRequest[i].errored

C1_Witness ==
  /\ archive.finalized
  /\ Len(allImages) >= 2
  /\ \E i, j \in 1..Len(allImages) :
       /\ imagesRequest[i].statusCode = 200
       /\ imagesRequest[j].errored /\ imagesRequest[j].statusCode = 0

\* C2: a manifest entry whose fetch answered with a status other than 200 is
\* resolved as skipped by the response handler, so it never blocks Promise.all
C2_Non200Resolved ==
  \A i \in 1..Len(imagesRequest) :
    imagesRequest[i].statusCode \notin {0, 200} => imagesRequest[i].dfd = "resolved"

\* C3: once some fetch has raised a transport error and every fetch of the
\* request has been answered (a response or an error), nothing blocks the
\* archive: it is finalized or its finalization is due
C3_ErrorNeverBlocks ==
  ( /\ pc = "await"
    /\ \E i \in 1..Len(imagesRequest) :
         imagesRequest[i].errored /\ imagesRequest[i].statusCode = 0
    /\ \A i \in 1..Len(imagesRequest) :
         imagesRequest[i].errored \/ imagesRequest[i].statusCode # 0 )
  => ENABLED Finalize

\* C6: no URL is in the manifest twice, and one fetch is issued per entry
C6_ManifestDistinct ==
  Exporting =>
    /\ \A i, j \in 1..Len(allImages) : allImages[i] = allImages[j] => i = j
    /\ Len(imagesRequest) = Len(allImages)

C6_Witness ==
  /\ Exporting
  /\ Len(allImages) = 1
  /\ \E a, b \in 1..Len(body) :
       /\ body[a].shape = "img" /\ body[b].shape = "style"
       /\ body[a].value = body[b].value
       /\ body[a].value = allImages[1]

\* the document zip should produce: every absolute reference reads
\* images/<getImageName(url)>, everything else as submitted
RECURSIVE Expected(_)
Expected(doc) ==
  IF doc = <<>> THEN <<>>
  ELSE LET el == Head(doc)
           v  == IF IsAbsoluteUrl(el.value)
                 THEN <<"images", "/">> \o getImageName(el.value) ELSE el.value
       IN  ElementText([el EXCEPT !.value = v]) \o Expected(Tail(doc))

\* C7: for a document whose references are all absolute URLs, the rewritten
\* html reads images/<getImageName(url)> at each of them, whatever the URLs
C7_RewriteExact ==
  ( /\ Exporting
    /\ \A k \in 1..Len(body) : IsAbsoluteUrl(body[k].value) )
  => html = Expected(body)

\* C8: every entry of the manifest is an absolute HTTP(S) URL
C8_ManifestAbsolute ==
  \A i \in 1..Len(allImages) : IsAbsoluteUrl(allImages[i])

\* the archive root of the mailing the request names
ExpectedName ==
  LET m == CHOOSE m \in Mailings : m.id = req.mailingId
  IN  IF m.name = <<"my", " ", "mail", ".", "html">> THEN <<"my", "-", "mail">> ELSE <<>>

\* C9: the archive holds the html first; each further entry is the image of
\* a manifest entry that answered 200, stored as <name>/images/<imageName>,
\* and no manifest entry has two
C9_ImagesOnlyOn200 ==
  \A k \in 1..Len(archive.entries) :
    LET e == archive.entries[k]
    IN  IF k = 1 THEN e.source = 0
        ELSE /\ e.source \in 1..Len(allImages)
             /\ imagesRequest[e.source].statusCode = 200
             /\ e.name = getImageName(allImages[e.source])
             /\ e.prefix = ExpectedName \o <<"/", "images", "/">>
             /\ \A l \in 1..Len(archive.entries) :
                  archive.entries[l].source = e.source => l = k

C9_Witness ==
  /\ Len(archive.entries) = 2
  /\ \E i \in 1..Len(imagesRequest) :
       imagesRequest[i].statusCode = 500 /\ imagesRequest[i].errored

\* a mailing the caller may export: the requested id, in the caller's group
\* unless the caller is an admin
Matching ==
  {m \in Mailings : /\ m.id = req.mailingId
                    /\ (req.user.isAdmin \/ m.groupId = req.user.groupId)}

\* C10: when no mailing matches, nothing but next(404) happens: no archive,
\* no attachment, no fetch, no finalize
C10_NotFoundNoWork ==
  Matching = {} =>
    /\ pc \in {"findOne", "done"}
    /\ archive = NoArchive
    /\ res = NoResponse
    /\ imagesRequest = <<>>
    /\ nextCalls = (IF pc = "done" THEN <<404>> ELSE <<>>)

C10_Witness ==
  /\ pc = "done"
  /\ ~req.user.isAdmin
  /\ \E m \in Mailings : m.id = req.mailingId /\ m.groupId # req.user.groupId

\* C11: the handler has ended the response only if the archive was finalized
\* and has emitted 'end', and it has ended it at most once
C11_EndOnlyAfterFinalize ==
  /\ res.ends <= 1
  /\ res.ended <=> res.ends = 1
  /\ res.ended => archive.finalized /\ archive.ended
  /\ archive.ended => res.ends = 1

C11_Witness ==
  /\ res.ends = 1
  /\ Len(archive.entries) >= 2
  /\ ~archive.errored

\* C12: once the archive has emitted an error the export is aborted: the
\* handler finalizes nothing and ends no response from then on
C12_ErrorAborts ==
  [][archive.errored =>
       /\ archive'.finalized = archive.finalized
       /\ res'.ends = res.ends]_vars

\* C24: two distinct URLs of the manifest have distinct archive names
C24_NamesDistinct ==
  \A i, j \in 1..Len(allImages) :
    i # j => getImageName(allImages[i]) # getImageName(allImages[j])

\* ------------------------------------------- properties of parseMultipart

\* form parsing has ended: onEnd has been called
Ended == upc \in {"joining", "readFile", "done"}

\* C4, as claimed: the deferred is settled, resolved or rejected, only when
\* no write of the submission is still in flight
C4_SettledAfterAllWrites ==
  deferred.state # "pending" => \A i \in 1..Len(uploads) : uploads[i] # "pending"

\* C4, amended: the deferred is resolved only when every write of the
\* submission has been fulfilled
C4_ResolvedAfterAllWrites ==
  deferred.state = "resolved" => \A i \in 1..Len(uploads) : uploads[i] = "fulfilled"

C4_Witness ==
  /\ deferred.state = "resolved"
  /\ Len(uploads) >= 2
  /\ deferred.value.kind = "fields"
  /\ DOMAIN deferred.value.assets # {}

\* C5, as claimed: once a write has failed and parsing has ended, the
\* deferred is rejected with the error of the first write that failed, and
\* the formatter has not run
C5_RejectedWithFirstError ==
  (Ended /\ failOrder # <<>>) =>
    /\ deferred = [state |-> "rejected",
                   value |-> [kind |-> "write", index |-> Head(failOrder)]]
    /\ formatterCalls = 0

\* C5, amended: a failed write keeps the deferred from ever being resolved
\* and the formatter from running; once form parsing has ended the deferred
\* is rejected, with the parser's error if parsing failed, otherwise with the
\* error of a failed write: the first to fail, or one at a lower index that
\* had also failed before parsing ended
C5_RejectedNeverResolved ==
  failOrder # <<>> =>
    /\ deferred.state # "resolved"
    /\ formatterCalls = 0
    /\ Ended =>
         /\ deferred.state = "rejected"
         /\ deferred.value.kind \in {"parse", "write"}
         /\ deferred.value.kind = "write" =>
              /\ uploads[deferred.value.index] = "rejected"
              /\ deferred.value.index <= Head(failOrder)

C5_Witness ==
  /\ Len(failOrder) = 1
  /\ Len(uploads) = 3
  /\ deferred = [state |-> "rejected",
                 value |-> [kind |-> "write", index |-> Head(failOrder)]]
  /\ \E i \in 1..Len(uploads) : uploads[i] = "fulfilled"

\* ------------------------------------------- properties of the upload result

\* the part is what onFile makes of the submitted `file`
FromFile(part, file) == part = AfterOnFile(file, options.prefix, part.upload)

\* parseMultipart has resolved with the result of the groups formatter
GroupsResult == deferred.state = "resolved" /\ deferred.value.kind = "fields"

\* C13: every key of the assets map of a groups result that is a file name is
\* the slugged, extension-stripped name of a submitted file, and its value is
\* that file's stored name
C13_KeysExtensionFree ==
  GroupsResult =>
    \A k \in DOMAIN deferred.value.assets \ {<<"undefined">>} :
      \E i \in 1..Len(parts), file \in UploadFiles :
        /\ FromFile(parts[i], file)
        /\ k = StrippedName(file)
        /\ deferred.value.assets[k] = StoredName(file, options.prefix)

\* the key a written file is listed under: its slugged, extension-stripped
\* name followed by the extension of its declared type
KeyOf(file) == StrippedName(file) \o <<".", mimeExtension(file.type)>>

\* C13, amended: in a groups result every written file of files.images is
\* listed under its slugged, extension-stripped name followed by the
\* extension of its declared type, and the value under that key is the
\* stored name of a written file with that key
C13_KeysCarryMimeExtension ==
  GroupsResult =>
    \A i \in 1..Len(parts) :
      (parts[i].field = "images" /\ parts[i].upload # 0) =>
        \E file \in UploadFiles :
          /\ FromFile(parts[i], file)
          /\ KeyOf(file) \in DOMAIN deferred.value.assets
          /\ \E j \in 1..Len(parts), other \in UploadFiles :
               /\ FromFile(parts[j], other)
               /\ parts[j].upload # 0
               /\ KeyOf(other) = KeyOf(file)
               /\ deferred.value.assets[KeyOf(file)] = StoredName(other, options.prefix)

C13_Witness ==
  /\ GroupsResult
  /\ <<"logo", ".", "png">> \in DOMAIN deferred.value.assets
  /\ deferred.value.assets[<<"logo", ".", "png">>] = <<"p1", "-", "h1", ".", "png">>

\* a part of zero size, or one without a file name
Dropped(part) == part.size = 0 \/ part.name = <<>>

\* C14: a part of zero size or without a name is never handed to
\* writeStreamFromPath, and every entry of the assets map of a groups result
\* is the originalName and name of a part that has a size and a name
C14_EmptyPartsDropped ==
  /\ \A i \in 1..Len(parts) : Dropped(parts[i]) => parts[i].upload = 0
  /\ GroupsResult =>
       \A k \in DOMAIN deferred.value.assets :
         \E i \in 1..Len(parts) :
           /\ ~Dropped(parts[i])
           /\ parts[i].field = "images"
           /\ parts[i].originalName = k
           /\ parts[i].name = deferred.value.assets[k]

C14_Witness ==
  /\ GroupsResult
  /\ deferred.value.assets # << >>
  /\ \E i \in 1..Len(parts) : parts[i].field = "images" /\ parts[i].size = 0
  /\ \E i \in 1..Len(parts) :
       parts[i].field = "images" /\ parts[i].size # 0 /\ parts[i].name = <<>>

\* the part comes from a named file whose slugged, extension-stripped name is empty
EmptySlug(part) ==
  \E file \in UploadFiles :
    FromFile(part, file) /\ file.name # <<>> /\ StrippedName(file) = <<>>

\* C15: a file whose normalized name is empty is not written, and every entry
\* of the assets map of a groups result comes from another part
C15_EmptySlugSkipped ==
  /\ \A i \in 1..Len(parts) : EmptySlug(parts[i]) => parts[i].upload = 0
  /\ GroupsResult =>
       \A k \in DOMAIN deferred.value.assets :
         \E i \in 1..Len(parts) :
           /\ ~EmptySlug(parts[i])
           /\ parts[i].originalName = k
           /\ parts[i].name = deferred.value.assets[k]

\* the extensions of the MIME table
RealExtensions == {"png", "jpeg", "html"}

\* C16: every file handed to writeStreamFromPath has a name that ends in an
\* extension of the MIME table
C16_UnknownMimeNotWritten ==
  \A i \in 1..Len(parts) :
    parts[i].upload # 0 => parts[i].name[Len(parts[i].name)] \in RealExtensions

\* C17: two written files with the same hash have the same stored name
C17_SameHashSameName ==
  \A i, j \in 1..Len(parts) :
    (parts[i].upload # 0 /\ parts[j].upload # 0 /\ parts[i].hash = parts[j].hash)
      => parts[i].name = parts[j].name

\* C17, amended: two written files with the same hash whose declared types
\* map to the same extension have the same stored name
C17_SameHashAndExtSameName ==
  \A i, j \in 1..Len(parts) :
    (/\ parts[i].upload # 0
     /\ parts[j].upload # 0
     /\ parts[i].hash = parts[j].hash
     /\ mimeExtension(parts[i].type) = mimeExtension(parts[j].type))
      => parts[i].name = parts[j].name

C17_Witness ==
  \E i, j \in 1..Len(parts) :
    /\ parts[i].upload # 0
    /\ parts[j].upload # 0
    /\ parts[i].hash = parts[j].hash
    /\ parts[i].type = parts[j].type
    /\ parts[i].originalName # parts[j].originalName
    /\ parts[i].name = parts[j].name

\* C18: a markup part is never handed to writeStreamFromPath; a groups result
\* carries the text of a markup file when one was submitted and no markup
\* otherwise
C18_MarkupReadNotStored ==
  /\ \A i \in 1..Len(parts) : parts[i].field = "markup" => parts[i].upload = 0
  /\ GroupsResult =>
       IF FilesOf("markup") = <<>>
       THEN deferred.value.markup = <<>>
       ELSE \E i \in 1..Len(FilesOf("markup")) :
              deferred.value.markup = <<"text", FilesOf("markup")[i].hash>>

\* ------------------------------------------- properties of the mailings handlers

\* duplicate has saved its copy and redirected to the list
Duplicated == mpc = "done" /\ mreq.handler = "duplicate" /\ mres.kind = "redirect"

WasFirst ==
  \A i \in 1..Len(userList(mreq.user)) :
    userList(mreq.user)[i].id \in {dup.mailing.id, dup.duplicatedMailing.id}
      \/ userList(mreq.user)[i].updatedAt < dup.mailing.updatedAt

Miss ==
  /\ mreq.handler \in {"send", "update"}
  /\ ~mreq.user.isAdmin
  /\ \A i \in 1..Len(db) :
       db[i].id # mreq.mailingId \/ db[i].groupId # mreq.user.groupId

Saved == dup.found /\ \E i \in 1..Len(db) : db[i].id = dup.duplicatedMailing.id

\* C21: the copy is saved, or about to be, only once copyImages is fulfilled;
\* after a rejected copyImages the copy is no row of the table, nothing is
\* written to the response and the error is handed to next
C21_SaveAfterCopy ==
  /\ (mpc = "save" \/ Saved) => dup.copied = "fulfilled"
  /\ (dup.found /\ dup.copied = "rejected") =>
       /\ ~Saved
       /\ mres = NoReply
       /\ mnext = <<500>>
       /\ mpc = "done"

C21_Witness ==
  /\ dup.found
  /\ dup.copied = "rejected"
  /\ mnext = <<500>>
  /\ served = 2
  /\ Len(db) > Len(InitialMailings)

\* the outcomes of the request: the calls of next and the redirect
Outcomes(reply, calls) == Len(calls) + (IF reply.kind = "redirect" THEN 1 ELSE 0)

\* the request is a duplicate and no mailing of the caller has its id
DuplicateMiss ==
  /\ mreq.handler = "duplicate"
  /\ findOneIn(db, addGroupFilter(mreq.user, [id |-> mreq.mailingId])) = <<>>

\* C22: a duplicate request has at most one outcome, and exactly one when it
\* is over; when the mailing is not found the outcome is next with a 404 and
\* nothing is copied, saved or redirected; what happens to the gallery after
\* the redirect changes no outcome
C22_OneOutcome ==
  [][/\ mreq'.handler = "duplicate" =>
          /\ Outcomes(mres', mnext') <= 1
          /\ mpc' \in {"gallery", "done"} => Outcomes(mres', mnext') = 1
     /\ (DuplicateMiss /\ mpc = "handler" /\ mpc' = "done" /\ mnext' # <<500>>) =>
          /\ mnext' = <<404>>
          /\ mres' = NoReply
          /\ dup' = NoDuplicate
          /\ db' = db
     /\ mpc = "gallery" => (mnext' = mnext /\ mres' = mres /\ db' = db)]_vars

C22_Witness ==
  /\ mpc = "done"
  /\ mreq.handler = "duplicate"
  /\ dup.found
  /\ dup.gallerySaved = "rejected"
  /\ mres.kind = "redirect"
  /\ mnext = <<>>

\* C23: once a parseMultipart call whose parsing has ended has nothing left
\* to wait for, its deferred is settled
C23_SettledWhenOver == upc = "done" => deferred.state \in {"resolved", "rejected"}

\* C25: a bulkRemove whose body has no list, or an empty one, ends with a
\* redirect to the list URL built from the query and with no call of next
C25_NothingToRemoveRedirects ==
  (/\ mpc = "done"
   /\ mreq.handler = "bulkRemove"
   /\ ~mreq.body.mailings.isArray \/ Len(mreq.body.mailings.ids) = 0)
    => /\ mres.kind = "redirect"
       /\ mres.url = getRedirectUrl(mreq)
       /\ mnext = <<>>

\* the rows of the list of the caller that lie beyond the page shown
RowsBeyond ==
  LET groupId == IF mreq.user.isAdmin THEN NoGroup ELSE mreq.user.groupId
      total   == Len(SelectSeq(db, LAMBDA m : m.groupId = groupId))
      shown   == (pageOf(mreq.query) + 1) * limitOf(mreq.query)
  IN  IF total > shown THEN total - shown ELSE 0

\* C26: next is false exactly when no mailing lies beyond the page and is
\* otherwise the number of the following page; prev is false exactly on the
\* first page and is otherwise the number of the preceding page (pages
\* numbered from 1, the page of the query being pageOf + 1)
C26_PaginationLinks ==
  (mpc = "done" /\ mreq.handler = "userList") =>
    /\ mres.pagination.next = IF RowsBeyond = 0 THEN 0 ELSE pageOf(mreq.query) + 2
    /\ mres.pagination.prev = IF pageOf(mreq.query) = 0 THEN 0 ELSE pageOf(mreq.query)

====
